---- MODULE Spec2Model ----
(***************************************************************************)
(* z3c.conditionalviews: HTTP conditional-request validation.              *)
(*                                                                         *)
(* validate() (the gate, __init__.py) runs every registered IHTTPValidator *)
(* around one view call.  The two validators of the package are            *)
(* ETagValidator (etag.py) and ModifiedSinceValidator                      *)
(* (lastmodification.py).                                                  *)
(*                                                                         *)
(* Conventions of the model                                                *)
(*   - a Python string that the code indexes or splits is a sequence of    *)
(*     one-character strings;                                              *)
(*   - a value that may be None is a sequence of length 0 (None) or 1;     *)
(*   - a call result is Return(v) or Raise(e), e the exception's name.     *)
(***************************************************************************)
EXTENDS Integers, Sequences, FiniteSets, TLC

VARIABLES
    validators,     \* the registered IHTTPValidator utilities, in lookup order
    context,        \* the resource the view is bound to, with its adapters
    request,        \* request[k]: method, environ and response of invocation k
    pc,             \* pc[k]: where invocation k of validate() stands
    idx,            \* idx[k]: position of the running for-loop over validators
    evaluated,      \* evaluated[k]: local counter of validate()
    invalid,        \* invalid[k]: local counter of validate()
    invalidStatus,  \* invalidStatus[k]: local variable of validate()
    result,         \* result[k]: what validate() returns (None until set)
    calls,          \* calls[k]: the calls invocation k has made, in order
    ret             \* the outcome of the last direct call on a validator

vars == <<validators, context, request, pc, idx, evaluated, invalid,
          invalidStatus, result, calls, ret>>

---------------------------------------------------------------------------
(* Bounds *)

\* Times run over the seconds 0..MaxSeconds.
MaxSeconds == 2

\* At most MaxValidators utilities are registered.
MaxValidators == 2

Seconds == 0..MaxSeconds

\* A parsed match header has at most MaxElements comma-separated elements.
MaxElements == 2

---------------------------------------------------------------------------
(* Program constants *)

\* invalidStatus = 999 before the loop of validate().
NoStatus == 999

\* getStatus() of a response whose status was never set.
UnsetStatus == 599

---------------------------------------------------------------------------
(* Python values *)

None == <<>>

Some(v) == <<v>>

Return(v) == [exc |-> "", ret |-> v]

Raise(e) == [exc |-> e]

Returned(r) == r.exc = ""

DQ == "\""

Whitespace == {" "}

\* s[a:b] of Python for 0 <= a, with b already clipped to the length.
Slice(s, a, b) == IF a >= b THEN <<>> ELSE SubSeq(s, a + 1, b)

RECURSIVE lstrip(_)
lstrip(s) ==
    IF Len(s) > 0 /\ s[1] \in Whitespace THEN lstrip(Tail(s)) ELSE s

RECURSIVE rstrip(_)
rstrip(s) ==
    IF Len(s) > 0 /\ s[Len(s)] \in Whitespace
    THEN rstrip(SubSeq(s, 1, Len(s) - 1))
    ELSE s

strip(s) == rstrip(lstrip(s))

\* str.split(sep): the pieces between the separators, empty pieces kept.
RECURSIVE split(_, _)
split(s, sep) ==
    IF \E i \in 1..Len(s) : s[i] = sep
    THEN LET i == CHOOSE j \in 1..Len(s) :
                      s[j] = sep /\ \A h \in 1..(j - 1) : s[h] # sep
         IN  <<SubSeq(s, 1, i - 1)>> \o split(SubSeq(s, i + 1, Len(s)), sep)
    ELSE <<s>>

Contains(seq, x) == \E i \in 1..Len(seq) : seq[i] = x

---------------------------------------------------------------------------
(* The request, as the validators read it *)

\* HTTPRequest.getHeader upper-cases the name and maps "-" to "_".
EnvironKey(header) ==
    CASE header = "If-None-Match"       -> "IF_NONE_MATCH"
      [] header = "If-Match"            -> "IF_MATCH"
      [] header = "If-Modified-Since"   -> "IF_MODIFIED_SINCE"
      [] header = "If-UnModified-Since" -> "IF_UNMODIFIED_SINCE"

\* request.getHeader(header, None): None when the header is not sent.
getHeader(req, header) == req.environ[EnvironKey(header)]

\* request.get("QUERY_STRING", "")
QueryString(req) ==
    IF req.environ.QUERY_STRING = None THEN "" ELSE req.environ.QUERY_STRING[1]

\* request.response.getHeader(name, None)
responseHeader(req, name) == req.response.headers[name]

setHeader(req, name, value) ==
    [req EXCEPT !.response.headers[name] = Some(value)]

setStatus(req, status) == [req EXCEPT !.response.status = status]

---------------------------------------------------------------------------
(* ETagValidator *)

\* A plausible slip: the quotes stay on the list entry.
parseElement_QuotesKept(element) ==
    LET val == strip(element)
    IN  IF val = <<"*">>
        THEN [act |-> "keep", val |-> val]
        ELSE LET v == IF Slice(val, 0, IF Len(val) < 2 THEN Len(val) ELSE 2)
                           = <<"W", "/">>
                      THEN Slice(val, 2, Len(val))
                      ELSE val
             IN  IF Len(v) = 0
                 THEN [act |-> "raise", val |-> v]
                 ELSE IF v[1] = DQ /\ v[Len(v)] = DQ /\ Len(v) > 2
                      THEN [act |-> "keep", val |-> v]
                      ELSE [act |-> "drop", val |-> v]

\* A plausible slip: the weak marker is not removed before the quote test.
parseElement_KeepsWeakMarker(element) ==
    LET val == strip(element)
    IN  IF val = <<"*">>
        THEN [act |-> "keep", val |-> val]
        ELSE IF Len(val) = 0
             THEN [act |-> "raise", val |-> val]
             ELSE IF val[1] = DQ /\ val[Len(val)] = DQ /\ Len(val) > 2
                  THEN [act |-> "keep", val |-> Slice(val, 1, Len(val) - 1)]
                  ELSE [act |-> "drop", val |-> val]

\* One element of the comma-separated list: "keep" with the list entry,
\* "drop", or "raise" (val[0] of the empty string is an IndexError).
parseElement(element) ==
    LET val == strip(element)
    IN  IF val = <<"*">>
        THEN [act |-> "keep", val |-> val]
        ELSE LET v == IF Slice(val, 0, IF Len(val) < 2 THEN Len(val) ELSE 2)
                           = <<"W", "/">>
                      THEN Slice(val, 2, Len(val))
                      ELSE val
             IN  IF Len(v) = 0
                 THEN [act |-> "raise", val |-> v]
                 ELSE IF v[1] = DQ /\ v[Len(v)] = DQ /\ Len(v) > 2
                      THEN [act |-> "keep", val |-> Slice(v, 1, Len(v) - 1)]
                      ELSE [act |-> "drop", val |-> v]

RECURSIVE parseElements(_, _)
parseElements(vals, acc) ==
    IF Len(vals) = 0
    THEN Return(acc)
    ELSE LET e == parseElement(vals[1])
         IN  CASE e.act = "raise" -> Raise("IndexError")
               [] e.act = "keep"  -> parseElements(Tail(vals), Append(acc, e.val))
               [] e.act = "drop"  -> parseElements(Tail(vals), acc)

parseMatchList(req, header) ==
    LET matches == getHeader(req, header)
    IN  IF matches = None
        THEN Return(<<>>)
        ELSE parseElements(split(matches[1], ","), <<>>)

\* A plausible slip: only If-Match makes the validator applicable.
ETagValidator_evaluate_IfMatchOnly(ctx, req) ==
    getHeader(req, "If-Match") # None

ETagValidator_evaluate(ctx, req) ==
    getHeader(req, "If-None-Match") # None \/ getHeader(req, "If-Match") # None

\* queryMultiAdapter((context, request, view), IETag): the adapter or None.
ETagValidator_getDataStorage(ctx, req) == ctx.IETag

\* A plausible slip: the query string is not looked at.
ETagValidator_matches_IgnoresQuery(ctx, req, etag, matchset) ==
    IF Contains(matchset, <<"*">>)
    THEN ~ctx.INullResource
    ELSE etag # None /\ Contains(matchset, etag[1])

\* A plausible slip: "*" matches null resources too.
ETagValidator_matches_WildcardAlways(ctx, req, etag, matchset) ==
    IF Contains(matchset, <<"*">>)
    THEN TRUE
    ELSE QueryString(req) = "" /\ etag # None /\ Contains(matchset, etag[1])

\* A plausible slip: a resource without entity tag matches every list.
ETagValidator_matches_AbsentTagMatches(ctx, req, etag, matchset) ==
    IF Contains(matchset, <<"*">>)
    THEN ~ctx.INullResource
    ELSE QueryString(req) = "" /\ (etag = None \/ Contains(matchset, etag[1]))

\* A plausible slip: the query string is tested before the wildcard.
ETagValidator_matches_QueryFirst(ctx, req, etag, matchset) ==
    /\ QueryString(req) = ""
    /\ IF Contains(matchset, <<"*">>)
       THEN ~ctx.INullResource
       ELSE etag # None /\ Contains(matchset, etag[1])

\* A plausible slip: without an entity tag nothing matches, not even "*".
ETagValidator_matches_NoTagNoMatch(ctx, req, etag, matchset) ==
    /\ etag # None
    /\ IF Contains(matchset, <<"*">>)
       THEN ~ctx.INullResource
       ELSE QueryString(req) = "" /\ Contains(matchset, etag[1])

\* etag is None or Some(tag); "etag in matchset" is false for None.
ETagValidator_matches(ctx, req, etag, matchset) ==
    IF Contains(matchset, <<"*">>)
    THEN ~ctx.INullResource
    ELSE QueryString(req) = "" /\ etag # None /\ Contains(matchset, etag[1])

\* A plausible slip: If-Match is tested before If-None-Match.
ETagValidator_valid_IfMatchFirst(ctx, req) ==
    LET etag == IF ctx.IETag # None THEN ctx.IETag[1].etag ELSE None
        inm  == parseMatchList(req, "If-None-Match")
        im   == parseMatchList(req, "If-Match")
    IN  IF ~Returned(im)
        THEN Raise(im.exc)
        ELSE IF Len(im.ret) > 0
             THEN Return(ETagValidator_matches(ctx, req, etag, im.ret))
             ELSE IF ~Returned(inm)
                  THEN Raise(inm.exc)
                  ELSE IF Len(inm.ret) > 0
                       THEN Return(~ETagValidator_matches(ctx, req, etag,
                                                          inm.ret))
                       ELSE Return(TRUE)

ETagValidator_valid(ctx, req) ==
    LET storage == ETagValidator_getDataStorage(ctx, req)
        etag    == IF storage # None THEN storage[1].etag ELSE None
        inm     == parseMatchList(req, "If-None-Match")
        im      == parseMatchList(req, "If-Match")
    IN  IF ~Returned(inm)
        THEN Raise(inm.exc)
        ELSE IF Len(inm.ret) > 0
             THEN Return(~ETagValidator_matches(ctx, req, etag, inm.ret))
             ELSE IF ~Returned(im)
                  THEN Raise(im.exc)
                  ELSE IF Len(im.ret) > 0
                       THEN Return(ETagValidator_matches(ctx, req, etag, im.ret))
                       ELSE Return(TRUE)

\* A plausible slip: HEAD is forgotten.
ETagValidator_invalidStatus_GetOnly(ctx, req) ==
    IF req.method = "GET" THEN 304 ELSE 412

ETagValidator_invalidStatus(ctx, req) ==
    IF req.method \in {"GET", "HEAD"} THEN 304 ELSE 412

\* A plausible slip: the header already on the response is not looked at.
ETagValidator_updateResponse_Overwrites(ctx, req) ==
    IF QueryString(req) = "" /\ ctx.IETag # None /\ ctx.IETag[1].etag # None
    THEN setHeader(req, "ETag", <<DQ>> \o ctx.IETag[1].etag[1] \o <<DQ>>)
    ELSE req

\* The request with its response patched; "if etag:" is false for None and "".
ETagValidator_updateResponse(ctx, req) ==
    IF responseHeader(req, "ETag") = None /\ QueryString(req) = ""
    THEN LET storage == ETagValidator_getDataStorage(ctx, req)
             weak    == storage # None /\ storage[1].weak
             etag    == IF storage # None THEN storage[1].etag ELSE None
         IN  IF etag # None /\ Len(etag[1]) > 0
             THEN IF weak
                  THEN setHeader(req, "ETag", <<"W", "/", DQ>> \o etag[1] \o <<DQ>>)
                  ELSE setHeader(req, "ETag", <<DQ>> \o etag[1] \o <<DQ>>)
             ELSE req
    ELSE req

---------------------------------------------------------------------------
(* ModifiedSinceValidator *)

\* An HTTP-date is one token, the decimal text of its second; anything else
\* in a date header (a ";" parameter, other words) is further tokens.
rfc1123_date(seconds) == <<ToString(seconds)>>

\* zope.datetime.time(text): the seconds of an HTTP-date, or an exception.
zope_datetime_time(text) ==
    IF Len(text) = 1 /\ \E n \in Seconds : ToString(n) = text[1]
    THEN Return(CHOOSE n \in Seconds : ToString(n) = text[1])
    ELSE Raise("SyntaxError")

\* calendar.timegm(mtime.utctimetuple()): whole seconds, the microseconds cut.
timegm(mtime) == mtime.seconds

\* A plausible slip: the comparison is not strict.
ModifiedSinceValidator_ifModifiedSince_NotStrict(req, mtime, header) ==
    LET headervalue == getHeader(req, header)
    IN  IF headervalue # None
        THEN LET parsed == zope_datetime_time(split(headervalue[1], ";")[1])
             IN  IF ~Returned(parsed) THEN TRUE ELSE timegm(mtime) >= parsed.ret
        ELSE TRUE

ModifiedSinceValidator_ifModifiedSince(req, mtime, header) ==
    LET headervalue == getHeader(req, header)
    IN  IF headervalue # None
        THEN LET last_modification_time == timegm(mtime)
                 parsed == zope_datetime_time(split(headervalue[1], ";")[1])
             IN  IF ~Returned(parsed)
                 THEN TRUE
                 ELSE last_modification_time > parsed.ret
        ELSE TRUE

ModifiedSinceValidator_evaluate(ctx, req) ==
    \/ getHeader(req, "If-Modified-Since") # None
    \/ getHeader(req, "If-UnModified-Since") # None

\* queryMultiAdapter((context, request, view), ILastModificationDate)
ModifiedSinceValidator_getDataStorage(ctx, req) == ctx.ILastModificationDate

\* A plausible slip: without date header the default True is returned.
ModifiedSinceValidator_valid_DefaultTrue(ctx, req) ==
    IF \/ QueryString(req) # ""
       \/ ctx.ILastModificationDate = None
       \/ ctx.ILastModificationDate[1].lastmodified = None
    THEN Return(TRUE)
    ELSE LET mtime == ctx.ILastModificationDate[1].lastmodified[1]
         IN  IF getHeader(req, "If-Modified-Since") # None
             THEN Return(ModifiedSinceValidator_ifModifiedSince(
                             req, mtime, "If-Modified-Since"))
             ELSE IF getHeader(req, "If-UnModified-Since") # None
                  THEN Return(~ModifiedSinceValidator_ifModifiedSince(
                                  req, mtime, "If-UnModified-Since"))
                  ELSE Return(TRUE)

ModifiedSinceValidator_valid(ctx, req) ==
    IF QueryString(req) # ""
    THEN Return(TRUE)
    ELSE LET lmd == ModifiedSinceValidator_getDataStorage(ctx, req)
         IN  IF lmd = None
             THEN Return(TRUE)
             ELSE IF lmd[1].lastmodified = None
                  THEN Return(TRUE)
                  ELSE LET mtime == lmd[1].lastmodified[1]
                       IN  IF getHeader(req, "If-Modified-Since") # None
                           THEN Return(ModifiedSinceValidator_ifModifiedSince(
                                           req, mtime, "If-Modified-Since"))
                           ELSE IF getHeader(req, "If-UnModified-Since") # None
                                THEN Return(~ModifiedSinceValidator_ifModifiedSince(
                                                req, mtime, "If-UnModified-Since"))
                                ELSE Raise("ValueError")

\* A plausible slip: the status rule of the ETagValidator is used.
ModifiedSinceValidator_invalidStatus_ByMethod(ctx, req) ==
    IF req.method \in {"GET", "HEAD"} THEN 304 ELSE 412

ModifiedSinceValidator_invalidStatus(ctx, req) == 304

ModifiedSinceValidator_updateResponse(ctx, req) ==
    IF responseHeader(req, "Last-Modified") = None /\ QueryString(req) = ""
    THEN LET storage == ModifiedSinceValidator_getDataStorage(ctx, req)
         IN  IF storage # None /\ storage[1].lastmodified # None
             THEN setHeader(req, "Last-Modified",
                            rfc1123_date(timegm(storage[1].lastmodified[1])))
             ELSE req
    ELSE req

---------------------------------------------------------------------------
(* Dispatch on the registered utility *)

Evaluate(v, ctx, req) ==
    IF v = "ETagValidator"
    THEN ETagValidator_evaluate(ctx, req)
    ELSE ModifiedSinceValidator_evaluate(ctx, req)

Valid(v, ctx, req) ==
    IF v = "ETagValidator"
    THEN ETagValidator_valid(ctx, req)
    ELSE ModifiedSinceValidator_valid(ctx, req)

InvalidStatus(v, ctx, req) ==
    IF v = "ETagValidator"
    THEN ETagValidator_invalidStatus(ctx, req)
    ELSE ModifiedSinceValidator_invalidStatus(ctx, req)

UpdateResponse(v, ctx, req) ==
    IF v = "ETagValidator"
    THEN ETagValidator_updateResponse(ctx, req)
    ELSE ModifiedSinceValidator_updateResponse(ctx, req)

---------------------------------------------------------------------------
(* validate(): the gate *)

Invocations == DOMAIN pc

\* The views the package is exercised with: tests.py's Simpleview only
\* returns a body; the SimpleView of each validator's doctest also sets the
\* status and its validator header.
Views == {"tests.Simpleview", "etag.SimpleView", "lastmodification.SimpleView"}

\* func(viewobj, *args, **kw): the request after the call, and the body.
func(view, req) ==
    CASE view = "tests.Simpleview" ->
             [request |-> req, body |-> "xxxx"]
      [] view = "etag.SimpleView" ->
             [request |-> setHeader(setStatus(req, 200), "ETag",
                                    <<DQ, "x", DQ>>),
              body |-> "Rendered view representation"]
      [] view = "lastmodification.SimpleView" ->
             [request |-> setHeader(setStatus(req, 200), "Last-Modified",
                                    rfc1123_date(1)),
              body |-> "Rendered view representation."]

\* A plausible slip: the first invalid validator's status is kept.
ChosenStatus_FirstWins(status, st) == IF status = NoStatus THEN st ELSE status

\* Lines 39-40: every invalid validator assigns invalidStatus anew.
ChosenStatus(status, st) == st

\* A plausible slip: valid is called whatever evaluate answered.
Iteration_ValidAlways(i, ev, va, st, nEvaluated, nInvalid, status) ==
    LET c1 == <<[op |-> "evaluate", v |-> i, ret |-> ev]>>
        c2 == <<[op |-> "valid", v |-> i, exc |-> va.exc,
                 ret |-> Returned(va) /\ va.ret]>>
        c3 == <<[op |-> "invalidStatus", v |-> i, status |-> st]>>
        n  == IF ev THEN nEvaluated + 1 ELSE nEvaluated
    IN  IF ~Returned(va)
        THEN [raised |-> TRUE, calls |-> c1 \o c2, evaluated |-> n,
              invalid |-> nInvalid, invalidStatus |-> status]
        ELSE IF va.ret \/ ~ev
             THEN [raised |-> FALSE, calls |-> c1 \o c2, evaluated |-> n,
                   invalid |-> nInvalid, invalidStatus |-> status]
             ELSE [raised |-> FALSE, calls |-> c1 \o c2 \o c3,
                   evaluated |-> n, invalid |-> nInvalid + 1,
                   invalidStatus |-> st]

\* One pass of the first for-loop (lines 34-40) over validator number i,
\* given what its evaluate, valid and invalidStatus answer: the calls made
\* and the locals after it.  An exception of valid() leaves validate().
Iteration(i, ev, va, st, nEvaluated, nInvalid, status) ==
    LET c1 == <<[op |-> "evaluate", v |-> i, ret |-> ev]>>
        c2 == <<[op |-> "valid", v |-> i, exc |-> va.exc,
                 ret |-> Returned(va) /\ va.ret]>>
        c3 == <<[op |-> "invalidStatus", v |-> i, status |-> st]>>
    IN  IF ~ev
        THEN [raised |-> FALSE, calls |-> c1, evaluated |-> nEvaluated,
              invalid |-> nInvalid, invalidStatus |-> status]
        ELSE IF ~Returned(va)
             THEN [raised |-> TRUE, calls |-> c1 \o c2,
                   evaluated |-> nEvaluated + 1, invalid |-> nInvalid,
                   invalidStatus |-> status]
             ELSE IF va.ret
                  THEN [raised |-> FALSE, calls |-> c1 \o c2,
                        evaluated |-> nEvaluated + 1, invalid |-> nInvalid,
                        invalidStatus |-> status]
                  ELSE [raised |-> FALSE, calls |-> c1 \o c2 \o c3,
                        evaluated |-> nEvaluated + 1,
                        invalid |-> nInvalid + 1,
                        invalidStatus |-> ChosenStatus(status, st)]

LoopBody(k) ==
    Iteration(idx[k],
              Evaluate(validators[idx[k]], context, request[k]),
              Valid(validators[idx[k]], context, request[k]),
              InvalidStatus(validators[idx[k]], context, request[k]),
              evaluated[k], invalid[k], invalidStatus[k])

\* Lines 34-40, one validator per step.
Check(k) ==
    /\ pc[k] = "validate"
    /\ idx[k] <= Len(validators)
    /\ LET b == LoopBody(k)
       IN  /\ calls' = [calls EXCEPT ![k] = @ \o b.calls]
           /\ evaluated' = [evaluated EXCEPT ![k] = b.evaluated]
           /\ invalid' = [invalid EXCEPT ![k] = b.invalid]
           /\ invalidStatus' = [invalidStatus EXCEPT ![k] = b.invalidStatus]
           /\ pc' = [pc EXCEPT ![k] = IF b.raised THEN "raised" ELSE "validate"]
           /\ idx' = [idx EXCEPT ![k] = IF b.raised THEN @ ELSE @ + 1]
    /\ UNCHANGED <<validators, context, request, result, ret>>

\* A plausible slip: one invalid validator is enough to reject.
IsInvalid_AnyInvalid(k) == invalid[k] > 0

\* The condition of line 42.
IsInvalid(k) == evaluated[k] > 0 /\ evaluated[k] = invalid[k]

\* A plausible slip: the rejection returns at once, before lines 50-51.
Reject_ReturnsEarly(k) ==
    /\ pc[k] = "validate"
    /\ idx[k] > Len(validators)
    /\ evaluated[k] > 0 /\ evaluated[k] = invalid[k]
    /\ request' = [request EXCEPT ![k] = setStatus(@, invalidStatus[k])]
    /\ result' = [result EXCEPT ![k] = Some("")]
    /\ calls' = [calls EXCEPT ![k] =
                     Append(@, [op |-> "setStatus", status |-> invalidStatus[k]])]
    /\ pc' = [pc EXCEPT ![k] = "done"]
    /\ UNCHANGED <<validators, context, idx, evaluated, invalid, invalidStatus,
                   ret>>

\* A plausible slip: invalidStatus is kept where all invocations see it (on
\* the module or on the shared validator), so another invocation's value
\* may be the one written.
Reject_SharedStatus(k) ==
    /\ pc[k] = "validate"
    /\ idx[k] > Len(validators)
    /\ IsInvalid(k)
    /\ \E j \in Invocations :
           /\ request' = [request EXCEPT ![k] = setStatus(@, invalidStatus[j])]
           /\ calls' = [calls EXCEPT ![k] =
                            Append(@, [op |-> "setStatus",
                                       status |-> invalidStatus[j]])]
    /\ result' = [result EXCEPT ![k] = Some("")]
    /\ pc' = [pc EXCEPT ![k] = "update"]
    /\ idx' = [idx EXCEPT ![k] = 1]
    /\ UNCHANGED <<validators, context, evaluated, invalid, invalidStatus, ret>>

\* Lines 42-45: the request is invalid, the view is not called.
Reject(k) ==
    /\ pc[k] = "validate"
    /\ idx[k] > Len(validators)
    /\ IsInvalid(k)
    /\ request' = [request EXCEPT ![k] = setStatus(@, invalidStatus[k])]
    /\ result' = [result EXCEPT ![k] = Some("")]
    /\ calls' = [calls EXCEPT ![k] =
                     Append(@, [op |-> "setStatus", status |-> invalidStatus[k]])]
    /\ pc' = [pc EXCEPT ![k] = "update"]
    /\ idx' = [idx EXCEPT ![k] = 1]
    /\ UNCHANGED <<validators, context, evaluated, invalid, invalidStatus, ret>>

\* A plausible slip: the status is written before the branch, so also when
\* the view is called.
Process_SetsStatus(k) ==
    /\ pc[k] = "validate"
    /\ idx[k] > Len(validators)
    /\ ~IsInvalid(k)
    /\ \E view \in Views :
           LET r == func(view, setStatus(request[k], invalidStatus[k]))
           IN  /\ request' = [request EXCEPT ![k] = r.request]
               /\ result' = [result EXCEPT ![k] = Some(r.body)]
               /\ calls' = [calls EXCEPT ![k] =
                                @ \o <<[op |-> "setStatus",
                                        status |-> invalidStatus[k]],
                                       [op |-> "func", view |-> view,
                                        body |-> r.body]>>]
    /\ pc' = [pc EXCEPT ![k] = "update"]
    /\ idx' = [idx EXCEPT ![k] = 1]
    /\ UNCHANGED <<validators, context, evaluated, invalid, invalidStatus, ret>>

\* Lines 46-48: the request is valid, the view is called.
Process(k) ==
    /\ pc[k] = "validate"
    /\ idx[k] > Len(validators)
    /\ ~IsInvalid(k)
    /\ \E view \in Views :
           LET r == func(view, request[k])
           IN  /\ request' = [request EXCEPT ![k] = r.request]
               /\ result' = [result EXCEPT ![k] = Some(r.body)]
               /\ calls' = [calls EXCEPT ![k] =
                                Append(@, [op |-> "func", view |-> view,
                                           body |-> r.body])]
    /\ pc' = [pc EXCEPT ![k] = "update"]
    /\ idx' = [idx EXCEPT ![k] = 1]
    /\ UNCHANGED <<validators, context, evaluated, invalid, invalidStatus, ret>>

\* Lines 50-51, one validator per step.
Update(k) ==
    /\ pc[k] = "update"
    /\ idx[k] <= Len(validators)
    /\ request' = [request EXCEPT ![k] =
                       UpdateResponse(validators[idx[k]], context, @)]
    /\ calls' = [calls EXCEPT ![k] =
                     Append(@, [op |-> "updateResponse", v |-> idx[k]])]
    /\ idx' = [idx EXCEPT ![k] = @ + 1]
    /\ UNCHANGED <<validators, context, pc, evaluated, invalid, invalidStatus,
                   result, ret>>

\* Line 53.
Finish(k) ==
    /\ pc[k] = "update"
    /\ idx[k] > Len(validators)
    /\ pc' = [pc EXCEPT ![k] = "done"]
    /\ UNCHANGED <<validators, context, request, idx, evaluated, invalid,
                   invalidStatus, result, calls, ret>>

---------------------------------------------------------------------------
(* Inputs *)

ValidatorNames == {"ETagValidator", "ModifiedSinceValidator"}

\* getUtilitiesFor(IHTTPValidator): any registrations, in any order.
ValidatorLists == UNION {[1..n -> ValidatorNames] : n \in 0..MaxValidators}

Methods == {"GET", "HEAD", "POST", "FROG"}

Quoted(tag) == <<DQ>> \o tag \o <<DQ>>

\* Values of If-None-Match / If-Match: the shapes of the ETagValidator
\* doctest (quoted, several, weak, "*", unquoted), an unmatched quote and the
\* degenerate ones.
MatchHeaders ==
    { Quoted(<<"a">>),                          \* "a"
      Quoted(<<"b">>),                          \* "b"
      Quoted(<<"a">>) \o <<",", " ">> \o Quoted(<<"b">>),   \* "a", "b"
      <<"W", "/">> \o Quoted(<<"a">>),          \* W/"a"
      <<"*">>,                                  \* *
      Quoted(<<"*">>),                          \* "*"
      <<"W", "/">> \o Quoted(<<"*">>),          \* W/"*"
      Quoted(<<"b">>) \o <<",", " ", "*">>,     \* "b", *
      <<"a">>,                                  \* a
      <<DQ, "a">>,                              \* "a
      Quoted(<<"a">>) \o <<",">>,               \* "a",
      <<>> }                                    \* the empty string

\* An IETag adapter: the current entity tag (or None) and its weakness.
ETags ==
    { [etag |-> None, weak |-> FALSE],
      [etag |-> Some(<<"a">>), weak |-> FALSE],
      [etag |-> Some(<<"a">>), weak |-> TRUE],
      [etag |-> Some(<<"b">>), weak |-> FALSE] }

\* Values of If-Modified-Since / If-UnModified-Since: an HTTP-date, an
\* HTTP-date followed by a parameter, and text that is no date.
DateHeaders ==
    {rfc1123_date(n) : n \in Seconds}
        \cup {rfc1123_date(n) \o <<";", "length=1">> : n \in Seconds}
        \cup {<<"XXX">>}

\* datetime values: whole seconds and the microseconds within the second.
Datetimes == [seconds : Seconds, microsecond : {0, 500000}]

\* An ILastModificationDate adapter: lastmodified is a datetime or None.
LastModifications == {[lastmodified |-> None]}
                         \cup {[lastmodified |-> Some(d)] : d \in Datetimes}

Optional(S) == {None} \cup {Some(x) : x \in S}

\* TestRequest(): status 599 until set, no response header.
NewResponse ==
    [status |-> UnsetStatus,
     headers |-> [h \in {"ETag", "Last-Modified"} |-> None]]

NewRequest(method, query, inm, im, ims, ius) ==
    [method   |-> method,
     environ  |-> [QUERY_STRING        |-> query,
                   IF_NONE_MATCH       |-> inm,
                   IF_MATCH            |-> im,
                   IF_MODIFIED_SINCE   |-> ims,
                   IF_UNMODIFIED_SINCE |-> ius],
     response |-> NewResponse]

NewContext(null, etag, lmd) ==
    [INullResource |-> null, IETag |-> etag, ILastModificationDate |-> lmd]

\* Requests and resources that reach validate() with both validators in play.
GateRequests ==
    { NewRequest(m, q, inm, im, ims, ius) :
        m \in Methods,
        q \in {None, Some("argument=value")},
        inm \in {None, Some(Quoted(<<"a">>)), Some(<<>>)},
        im \in {None, Some(Quoted(<<"a">>))},
        ims \in {None, Some(rfc1123_date(1))},
        ius \in {None, Some(rfc1123_date(1))} }

GateContexts ==
    { NewContext(FALSE, Some(e), lmd) :
        e \in {[etag |-> Some(<<"a">>), weak |-> FALSE],
               [etag |-> Some(<<"a">>), weak |-> TRUE],
               [etag |-> Some(<<"b">>), weak |-> TRUE]},
        lmd \in {None} \cup
                {Some([lastmodified |-> Some([seconds |-> n, microsecond |-> 0])]) :
                     n \in Seconds} }

\* Requests and resources for calling one validator's methods directly:
\* only the headers and the adapter that validator reads vary.
ETagRequests ==
    { NewRequest(m, q, inm, im, None, None) :
        m \in Methods,
        q \in {None, Some(""), Some("argument=value")},
        inm \in Optional(MatchHeaders),
        im \in Optional(MatchHeaders) }

ETagContexts ==
    { NewContext(null, etag, None) : null \in BOOLEAN, etag \in Optional(ETags) }

ModifiedSinceRequests ==
    { NewRequest(m, q, None, None, ims, ius) :
        m \in Methods,
        q \in {None, Some(""), Some("argument=value")},
        ims \in Optional(DateHeaders),
        ius \in Optional(DateHeaders) }

ModifiedSinceContexts ==
    { NewContext(FALSE, None, lmd) : lmd \in Optional(LastModifications) }

---------------------------------------------------------------------------
(* Specification of validate() *)

InitLocals ==
    /\ pc = [k \in {1} |-> "validate"]
    /\ idx = [k \in {1} |-> 1]
    /\ evaluated = [k \in {1} |-> 0]
    /\ invalid = [k \in {1} |-> 0]
    /\ invalidStatus = [k \in {1} |-> NoStatus]
    /\ result = [k \in {1} |-> None]
    /\ calls = [k \in {1} |-> <<>>]
    /\ ret = None

Init ==
    /\ validators \in ValidatorLists
    /\ context \in GateContexts
    /\ request \in [{1} -> GateRequests]
    /\ InitLocals

Next ==
    \/ \E k \in Invocations : Check(k)
    \/ \E k \in Invocations : Reject(k)
    \/ \E k \in Invocations : Process(k)
    \/ \E k \in Invocations : Update(k)
    \/ \E k \in Invocations : Finish(k)

Spec == Init /\ [][Next]_vars

---------------------------------------------------------------------------
(* Specification of two concurrent invocations of validate() *)

\* Two views are called at the same time: the utilities and the resource
\* are shared, each call has its own request and response.
TwoRequests ==
    { NewRequest(m, None, inm, None, ims, None) :
        m \in {"GET", "POST"},
        inm \in {None, Some(Quoted(<<"a">>))},
        ims \in {None, Some(rfc1123_date(1))} }

TwoContexts ==
    { NewContext(FALSE, Some([etag |-> Some(<<"a">>), weak |-> FALSE]),
                 Some([lastmodified |-> Some([seconds |-> n,
                                              microsecond |-> 0])])) :
        n \in {0, MaxSeconds} }

InitTwo ==
    /\ validators \in [1..MaxValidators -> ValidatorNames]
    /\ context \in TwoContexts
    /\ request \in [{1, 2} -> TwoRequests]
    /\ pc = [k \in {1, 2} |-> "validate"]
    /\ idx = [k \in {1, 2} |-> 1]
    /\ evaluated = [k \in {1, 2} |-> 0]
    /\ invalid = [k \in {1, 2} |-> 0]
    /\ invalidStatus = [k \in {1, 2} |-> NoStatus]
    /\ result = [k \in {1, 2} |-> None]
    /\ calls = [k \in {1, 2} |-> <<>>]
    /\ ret = None

SpecTwo == InitTwo /\ [][Next]_vars

---------------------------------------------------------------------------
(* validate() run from start to end on its own *)

RECURSIVE CheckFrom(_, _, _)

\* The locals after the pass b over validator number i, and on with the loop.
AfterIteration(i, req, b) ==
    IF b.raised THEN b ELSE CheckFrom(i + 1, req, b)

\* Lines 34-40 from validator number i on, with the locals so far.
CheckFrom(i, req, locals) ==
    IF i > Len(validators)
    THEN locals
    ELSE AfterIteration(i, req,
             Iteration(i,
                       Evaluate(validators[i], context, req),
                       Valid(validators[i], context, req),
                       InvalidStatus(validators[i], context, req),
                       locals.evaluated, locals.invalid,
                       locals.invalidStatus))

\* Lines 50-51 from validator number i on.
RECURSIVE UpdateFrom(_, _)
UpdateFrom(i, req) ==
    IF i > Len(validators)
    THEN req
    ELSE UpdateFrom(i + 1, UpdateResponse(validators[i], context, req))

\* Lines 42-53, given the locals the first loop ended with.
Decide(req, view, locals) ==
    IF locals.raised
    THEN [raised |-> TRUE, invoked |-> FALSE, request |-> req,
          result |-> None]
    ELSE IF locals.evaluated > 0 /\ locals.evaluated = locals.invalid
         THEN [raised |-> FALSE, invoked |-> FALSE,
               request |-> UpdateFrom(1, setStatus(req, locals.invalidStatus)),
               result |-> Some("")]
         ELSE [raised |-> FALSE, invoked |-> TRUE,
               request |-> UpdateFrom(1, func(view, req).request),
               result |-> Some(func(view, req).body)]

\* validate(context, request, func, viewobj): where the request ends, what
\* is returned, whether the view was called, whether an exception left it.
ValidateAlone(req, view) ==
    Decide(req, view,
           CheckFrom(1, req, [raised |-> FALSE, evaluated |-> 0,
                              invalid |-> 0, invalidStatus |-> NoStatus]))

---------------------------------------------------------------------------
(* Specification of direct calls on one validator, as in the doctests *)

\* The validator under test is validators[1].
CallEvaluate(k) ==
    /\ pc[k] = "direct"
    /\ ret' = Some([op |-> "evaluate",
                    out |-> Return(Evaluate(validators[1], context, request[k]))])
    /\ UNCHANGED <<validators, context, request, pc, idx, evaluated, invalid,
                   invalidStatus, result, calls>>

CallValid(k) ==
    /\ pc[k] = "direct"
    /\ ret' = Some([op |-> "valid",
                    out |-> Valid(validators[1], context, request[k])])
    /\ UNCHANGED <<validators, context, request, pc, idx, evaluated, invalid,
                   invalidStatus, result, calls>>

CallInvalidStatus(k) ==
    /\ pc[k] = "direct"
    /\ ret' = Some([op |-> "invalidStatus",
                    out |-> Return(InvalidStatus(validators[1], context,
                                                 request[k]))])
    /\ UNCHANGED <<validators, context, request, pc, idx, evaluated, invalid,
                   invalidStatus, result, calls>>

CallUpdateResponse(k) ==
    /\ pc[k] = "direct"
    /\ request' = [request EXCEPT ![k] =
                       UpdateResponse(validators[1], context, @)]
    /\ ret' = Some([op |-> "updateResponse", out |-> Return(None)])
    /\ UNCHANGED <<validators, context, pc, idx, evaluated, invalid,
                   invalidStatus, result, calls>>

InitDirect ==
    /\ \/ /\ validators = <<"ETagValidator">>
          /\ context \in ETagContexts
          /\ request \in [{1} -> ETagRequests]
       \/ /\ validators = <<"ModifiedSinceValidator">>
          /\ context \in ModifiedSinceContexts
          /\ request \in [{1} -> ModifiedSinceRequests]
    /\ pc = [k \in {1} |-> "direct"]
    /\ idx = [k \in {1} |-> 1]
    /\ evaluated = [k \in {1} |-> 0]
    /\ invalid = [k \in {1} |-> 0]
    /\ invalidStatus = [k \in {1} |-> NoStatus]
    /\ result = [k \in {1} |-> None]
    /\ calls = [k \in {1} |-> <<>>]
    /\ ret = None

NextDirect ==
    \/ \E k \in Invocations : CallEvaluate(k)
    \/ \E k \in Invocations : CallValid(k)
    \/ \E k \in Invocations : CallInvalidStatus(k)
    \/ \E k \in Invocations : CallUpdateResponse(k)

SpecDirect == InitDirect /\ [][NextDirect]_vars

---------------------------------------------------------------------------
(* Specification of parseMatchList on its own, as in the doctest *)

\* The elements a match header is written with: what kind of element it is,
\* the entity tag it carries (if any) and its text between the commas.
ElementShapes ==
    { [kind |-> "quoted",      tag |-> <<"a">>, text |-> Quoted(<<"a">>)],
      [kind |-> "quoted",      tag |-> <<"b">>, text |-> Quoted(<<"b">>)],
      [kind |-> "quoted",      tag |-> <<"c">>,
       text |-> <<" ">> \o Quoted(<<"c">>) \o <<" ">>],
      [kind |-> "quoted",      tag |-> <<"*">>, text |-> Quoted(<<"*">>)],
      [kind |-> "weak",        tag |-> <<"w">>,
       text |-> <<"W", "/">> \o Quoted(<<"w">>)],
      [kind |-> "wildcard",    tag |-> <<"*">>, text |-> <<" ", "*">>],
      [kind |-> "token",       tag |-> <<>>,    text |-> <<"a">>],
      [kind |-> "token",       tag |-> <<>>,    text |-> <<"W", "/", "a">>],
      [kind |-> "empty",       tag |-> <<>>,    text |-> <<>>],
      [kind |-> "bareweak",    tag |-> <<>>,    text |-> <<"W", "/">>],
      [kind |-> "quote",       tag |-> <<>>,    text |-> <<DQ>>],
      [kind |-> "unmatched",   tag |-> <<>>,    text |-> <<DQ, "a">>],
      [kind |-> "emptyquoted", tag |-> <<>>,    text |-> <<DQ, DQ>>] }

ElementLists == UNION {[1..n -> ElementShapes] : n \in 1..MaxElements}

\* The header text of a list of elements: their texts with "," between.
RECURSIVE Join(_)
Join(list) ==
    IF Len(list) = 1
    THEN list[1].text
    ELSE list[1].text \o <<",">> \o Join(Tail(list))

JoinOf == [list \in ElementLists |-> Join(list)]

ParseRequests ==
    { NewRequest("GET", None, None, im, None, None) :
        im \in {None} \cup {Some(JoinOf[list]) : list \in ElementLists} }

CallParseMatchList(k) ==
    /\ pc[k] = "parse"
    /\ \E header \in {"If-None-Match", "If-Match"} :
           ret' = Some([op |-> "parseMatchList", header |-> header,
                        out |-> parseMatchList(request[k], header)])
    /\ UNCHANGED <<validators, context, request, pc, idx, evaluated, invalid,
                   invalidStatus, result, calls>>

InitParse ==
    /\ validators = <<"ETagValidator">>
    /\ context = NewContext(FALSE, None, None)
    /\ request \in [{1} -> ParseRequests]
    /\ pc = [k \in {1} |-> "parse"]
    /\ idx = [k \in {1} |-> 1]
    /\ evaluated = [k \in {1} |-> 0]
    /\ invalid = [k \in {1} |-> 0]
    /\ invalidStatus = [k \in {1} |-> NoStatus]
    /\ result = [k \in {1} |-> None]
    /\ calls = [k \in {1} |-> <<>>]
    /\ ret = None

NextParse == \E k \in Invocations : CallParseMatchList(k)

SpecParse == InitParse /\ [][NextParse]_vars

---------------------------------------------------------------------------
(* What an invocation's call log says *)

Log(k) == calls[k]

\* The validators (by position) whose evaluate returned True.
Applicable(k) ==
    {i \in 1..Len(validators) :
        \E j \in DOMAIN Log(k) :
            Log(k)[j].op = "evaluate" /\ Log(k)[j].v = i /\ Log(k)[j].ret}

\* The validators whose valid returned False.
ReportedInvalid(k) ==
    {i \in 1..Len(validators) :
        \E j \in DOMAIN Log(k) :
            /\ Log(k)[j].op = "valid"
            /\ Log(k)[j].v = i
            /\ Log(k)[j].exc = ""
            /\ ~Log(k)[j].ret}

\* The status validator i's invalidStatus returned.
ReportedStatus(k, i) ==
    LET j == CHOOSE j \in DOMAIN Log(k) :
                 Log(k)[j].op = "invalidStatus" /\ Log(k)[j].v = i
    IN  Log(k)[j].status

Positions(k, ops) == {j \in DOMAIN Log(k) : Log(k)[j].op \in ops}

Rejected(k) == Positions(k, {"setStatus"}) # {}

\* The decision of validate() has been taken: lines 42-48 are behind.
Decided(k) == pc[k] \in {"update", "done"}

Max(S) == CHOOSE x \in S : \A y \in S : y <= x

Min(S) == CHOOSE x \in S : \A y \in S : x <= y

---------------------------------------------------------------------------
(* Claims about validate() *)

\* C1: in every invocation of validate() in which the validators answered,
\* the request is rejected (view not called, response status set, result "")
\* if and only if at least one validator's evaluate returned True and every
\* validator whose evaluate returned True reported valid = False; in every
\* other case the view is called exactly once and its body is the result.
\* Before the decision neither has happened.  (An invocation that valid()
\* leaves with an exception takes neither branch; pc is then "raised".)
C1_RejectIffUnanimous ==
    \A k \in Invocations :
        /\ Decided(k) =>
              /\ Rejected(k) <=>
                    (Applicable(k) # {} /\ Applicable(k) \subseteq ReportedInvalid(k))
              /\ Rejected(k) =>
                    /\ Positions(k, {"func"}) = {}
                    /\ Cardinality(Positions(k, {"setStatus"})) = 1
                    /\ request[k].response.status # UnsetStatus
                    /\ result[k] = Some("")
              /\ ~Rejected(k) =>
                    /\ Cardinality(Positions(k, {"func"})) = 1
                    /\ \A j \in Positions(k, {"func"}) :
                           result[k] = Some(Log(k)[j].body)
        /\ ~Decided(k) =>
              /\ Positions(k, {"func", "setStatus"}) = {}
              /\ result[k] = None

\* C1 witness: one applicable validator invalid, another applicable one
\* valid, and the view was called.
C1_Witness_MixedAccepted ==
    \E k \in Invocations :
        /\ pc[k] = "done"
        /\ \E i, j \in Applicable(k) :
               i \in ReportedInvalid(k) /\ j \notin ReportedInvalid(k)
        /\ Positions(k, {"func"}) # {}
        /\ result[k] # Some("")

\* C2: in every invocation that took a branch, updateResponse is called
\* exactly once on every validator, in list order, only after the status was
\* set by the rejection or the view was called, and after every evaluate and
\* valid call of the invocation.
C2_UpdateResponseOnAllAfterDecision ==
    \A k \in Invocations :
        LET updates == SelectSeq(Log(k), LAMBDA c : c.op = "updateResponse")
        IN  /\ \A n \in DOMAIN updates : updates[n].v = n
            /\ pc[k] = "done" => Len(updates) = Len(validators)
            /\ Decided(k) =>
                  Cardinality(Positions(k, {"func", "setStatus"})) = 1
            /\ \A u \in Positions(k, {"updateResponse"}) :
                  /\ \E d \in Positions(k, {"func", "setStatus"}) : d < u
                  /\ \A c \in Positions(k, {"evaluate", "valid", "invalidStatus"}) :
                         c < u

\* C2 witness: a rejected request with two validators, both patched.
C2_Witness_RejectedAllUpdated ==
    \E k \in Invocations :
        /\ pc[k] = "done"
        /\ Rejected(k)
        /\ Len(validators) = 2
        /\ Cardinality(Positions(k, {"updateResponse"})) = 2

C4_FirstInvalidStatusWins ==
    \A k \in Invocations :
        (Decided(k) /\ Rejected(k) /\ Cardinality(ReportedInvalid(k)) >= 2)
        => request[k].response.status = ReportedStatus(k, Min(ReportedInvalid(k)))

---------------------------------------------------------------------------
(* What a direct call says *)

\* The validator the direct calls are made on.
Subject == validators[1]

Called(op) == ret # None /\ ret[1].op = op

Out == ret[1].out

\* valid() was called on validator v and returned b.
ValidReturned(v, b) ==
    Subject = v /\ Called("valid") /\ Returned(Out) /\ Out.ret = b

\* valid() was called on validator v and returned.
ValidAnswered(v) == Subject = v /\ Called("valid") /\ Returned(Out)

NoQuery(k) == QueryString(request[k]) = ""

CurrentTag == IF context.IETag = None THEN None ELSE context.IETag[1].etag

\* The parsed list lists the resource's current entity tag.
ListsCurrentTag(list) == CurrentTag # None /\ Contains(list, CurrentTag[1])

ListsWildcard(list) == Contains(list, <<"*">>)

IfNoneMatch(k) == parseMatchList(request[k], "If-None-Match")

IfMatch(k) == parseMatchList(request[k], "If-Match")

NoHeaderWritten(k) ==
    /\ responseHeader(request[k], "ETag") = None
    /\ responseHeader(request[k], "Last-Modified") = None

---------------------------------------------------------------------------
(* Claims about the validators *)

\* C5 as stated: for every request with a non-empty query string, valid
\* of both validators returns True whenever it returns, and no
\* updateResponse writes ETag or Last-Modified.
C5_QueryStringAlwaysValid ==
    \A k \in Invocations :
        ~NoQuery(k) =>
            /\ (Called("valid") /\ Returned(Out)) => Out.ret
            /\ NoHeaderWritten(k)

\* C5 amended: for every request with a non-empty query string,
\* ModifiedSinceValidator.valid returns True and no updateResponse writes
\* ETag or Last-Modified; ETagValidator.valid, when it returns, returns True
\* if nothing parses or a wildcard-free If-None-Match list decides, False if
\* a wildcard-free If-Match list decides, and with * in the deciding list
\* what the null-resource test says (If-None-Match: null; If-Match: not null).
C5_QueryString ==
    \A k \in Invocations :
        ~NoQuery(k) =>
            /\ NoHeaderWritten(k)
            /\ (Subject = "ModifiedSinceValidator" /\ Called("valid"))
                   => (Returned(Out) /\ Out.ret)
            /\ ValidAnswered("ETagValidator") =>
                   Out.ret =
                       IF Len(IfNoneMatch(k).ret) > 0
                       THEN (ListsWildcard(IfNoneMatch(k).ret)
                                 => context.INullResource)
                       ELSE IF Len(IfMatch(k).ret) > 0
                            THEN (ListsWildcard(IfMatch(k).ret)
                                      /\ ~context.INullResource)
                            ELSE TRUE

\* C5 witness: a request with query string whose If-Match lists the current
\* tag, and ETagValidator.valid returned False.
C5_Witness_QueryIfMatchInvalid ==
    \E k \in Invocations :
        /\ ~NoQuery(k)
        /\ getHeader(request[k], "If-None-Match") = None
        /\ ValidReturned("ETagValidator", FALSE)
        /\ ListsCurrentTag(IfMatch(k).ret)

\* C6 as stated: ETagValidator.valid under If-None-Match, no query string:
\* listing the current tag gives False; listing * gives False on an existing
\* resource and True on a null resource; listing only other tags gives True.
C6_IfNoneMatchAsStated ==
    \A k \in Invocations :
        (NoQuery(k) /\ ValidAnswered("ETagValidator")
            /\ Len(IfNoneMatch(k).ret) > 0)
        => LET list == IfNoneMatch(k).ret
           IN  /\ ListsCurrentTag(list) => ~Out.ret
               /\ (ListsWildcard(list) /\ ~context.INullResource) => ~Out.ret
               /\ (ListsWildcard(list) /\ context.INullResource) => Out.ret
               /\ (~ListsWildcard(list) /\ ~ListsCurrentTag(list)) => Out.ret

\* C6 amended: as stated, but listing the current tag gives False unless the
\* header also lists * and the resource is a null resource (then True).
C6_IfNoneMatch ==
    \A k \in Invocations :
        (NoQuery(k) /\ ValidAnswered("ETagValidator")
            /\ Len(IfNoneMatch(k).ret) > 0)
        => LET list == IfNoneMatch(k).ret
           IN  /\ (ListsCurrentTag(list)
                     /\ ~(ListsWildcard(list) /\ context.INullResource))
                   => ~Out.ret
               /\ (ListsWildcard(list) /\ ~context.INullResource) => ~Out.ret
               /\ (ListsWildcard(list) /\ context.INullResource) => Out.ret
               /\ (~ListsWildcard(list) /\ ~ListsCurrentTag(list)) => Out.ret

\* C6 witness: If-None-Match lists the current tag and *, the resource is a
\* null resource, and valid returned True.
C6_Witness_NullResourceWildcard ==
    \E k \in Invocations :
        /\ NoQuery(k)
        /\ context.INullResource
        /\ ValidReturned("ETagValidator", TRUE)
        /\ ListsWildcard(IfNoneMatch(k).ret)
        /\ ListsCurrentTag(IfNoneMatch(k).ret)

\* C7 as stated: ETagValidator.valid under If-Match (If-None-Match absent,
\* no query string) returns True iff the current tag is a member of the
\* parsed If-Match list.
C7_IfMatchAsStated ==
    \A k \in Invocations :
        (/\ NoQuery(k)
         /\ getHeader(request[k], "If-None-Match") = None
         /\ getHeader(request[k], "If-Match") # None
         /\ ValidAnswered("ETagValidator"))
        => (Out.ret <=> ListsCurrentTag(IfMatch(k).ret))

\* C7 amended: under the same conditions valid returns True iff the parsed
\* If-Match list is empty, or contains * and the resource is not a null
\* resource, or contains no * and the current tag is a member; so with the
\* current tag absent every non-empty list without * gives False.
C7_IfMatch ==
    \A k \in Invocations :
        (/\ NoQuery(k)
         /\ getHeader(request[k], "If-None-Match") = None
         /\ getHeader(request[k], "If-Match") # None
         /\ ValidAnswered("ETagValidator"))
        => LET list == IfMatch(k).ret
           IN  /\ Out.ret <=>
                     \/ Len(list) = 0
                     \/ ListsWildcard(list) /\ ~context.INullResource
                     \/ ~ListsWildcard(list) /\ ListsCurrentTag(list)
               /\ (CurrentTag = None /\ Len(list) > 0 /\ ~ListsWildcard(list))
                      => ~Out.ret

\* C7 witness: the resource has no entity tag, If-Match lists a tag and no
\* *, and valid returned False.
C7_Witness_AbsentTagInvalid ==
    \E k \in Invocations :
        /\ NoQuery(k)
        /\ getHeader(request[k], "If-None-Match") = None
        /\ CurrentTag = None
        /\ ValidReturned("ETagValidator", FALSE)
        /\ Len(IfMatch(k).ret) > 0
        /\ ~ListsWildcard(IfMatch(k).ret)

\* The resource's last-modified datetime, when there is one.
HasLastModified ==
    /\ context.ILastModificationDate # None
    /\ context.ILastModificationDate[1].lastmodified # None

LastModified == context.ILastModificationDate[1].lastmodified[1]

\* The header carries the HTTP-date of second h (with or without parameter).
IsDate(value, h) ==
    \/ value = Some(rfc1123_date(h))
    \/ value = Some(rfc1123_date(h) \o <<";", "length=1">>)

\* C8: ModifiedSinceValidator.valid, no query string, last-modified T
\* present, compares whole seconds strictly: with If-Modified-Since = H it is
\* True iff T > H; with only If-UnModified-Since = H it is True iff T <= H.
C8_ModifiedSinceStrictSeconds ==
    \A k \in Invocations :
        (/\ NoQuery(k)
         /\ Subject = "ModifiedSinceValidator"
         /\ Called("valid")
         /\ HasLastModified)
        => \A h \in Seconds :
               /\ IsDate(getHeader(request[k], "If-Modified-Since"), h)
                   => /\ Returned(Out)
                      /\ Out.ret <=> (LastModified.seconds > h)
               /\ (/\ getHeader(request[k], "If-Modified-Since") = None
                   /\ IsDate(getHeader(request[k], "If-UnModified-Since"), h))
                   => /\ Returned(Out)
                      /\ Out.ret <=> (LastModified.seconds <= h)

\* C8 witness: the resource changed half a second after H, within the same
\* whole second, and If-Modified-Since = H was answered False.
C8_Witness_SameSecondNotModified ==
    \E k \in Invocations :
        /\ NoQuery(k)
        /\ HasLastModified
        /\ LastModified.microsecond > 0
        /\ IsDate(getHeader(request[k], "If-Modified-Since"), LastModified.seconds)
        /\ ValidReturned("ModifiedSinceValidator", FALSE)

\* C9: ETagValidator.invalidStatus returns 304 for GET and HEAD and 412 for
\* every other method, whichever header failed and whatever the resource.
C9_ETagInvalidStatus ==
    \A k \in Invocations :
        (Subject = "ETagValidator" /\ Called("invalidStatus"))
        => /\ Returned(Out)
           /\ request[k].method \in {"GET", "HEAD"} => Out.ret = 304
           /\ request[k].method \notin {"GET", "HEAD"} => Out.ret = 412

\* C9 witness: a HEAD request whose If-Match fails (valid is False on it),
\* and invalidStatus returned 304.
C9_Witness_HeadIfMatch ==
    \E k \in Invocations :
        /\ Subject = "ETagValidator"
        /\ request[k].method = "HEAD"
        /\ getHeader(request[k], "If-None-Match") = None
        /\ getHeader(request[k], "If-Match") # None
        /\ Returned(ETagValidator_valid(context, request[k]))
        /\ ~ETagValidator_valid(context, request[k]).ret
        /\ Called("invalidStatus")
        /\ Out.ret = 304

\* C10: ModifiedSinceValidator.invalidStatus is 304 for every request, so a
\* request that validate() rejects with the ModifiedSinceValidator as the
\* last invalid validator gets status 304 for every method, also when the
\* failing header is If-UnModified-Since.
C10_ModifiedSinceAlways304 ==
    \A k \in Invocations :
        /\ ModifiedSinceValidator_invalidStatus(context, request[k]) = 304
        /\ \A j \in Positions(k, {"invalidStatus"}) :
               validators[Log(k)[j].v] = "ModifiedSinceValidator"
                   => Log(k)[j].status = 304
        /\ (/\ Decided(k)
            /\ Rejected(k)
            /\ validators[Max(ReportedInvalid(k))] = "ModifiedSinceValidator")
           => request[k].response.status = 304

\* C10 witness: a POST request failing If-UnModified-Since only, rejected
\* with status 304.
C10_Witness_PostUnmodifiedSince304 ==
    \E k \in Invocations :
        /\ pc[k] = "done"
        /\ Rejected(k)
        /\ request[k].method = "POST"
        /\ getHeader(request[k], "If-Modified-Since") = None
        /\ getHeader(request[k], "If-UnModified-Since") # None
        /\ validators[Max(ReportedInvalid(k))] = "ModifiedSinceValidator"
        /\ request[k].response.status = 304

---------------------------------------------------------------------------
(* Claims about updateResponse and the end-to-end behaviour *)

ResponseHeaders == {"ETag", "Last-Modified"}

\* Invocation k takes a step of the second for-loop: one updateResponse call.
UpdateStep(k) == pc[k] = "update" /\ idx'[k] = idx[k] + 1

\* C11: an updateResponse call of validate() never changes a response header
\* that already has a value (set by the view or by an earlier updateResponse),
\* even when the resource's current tag or timestamp differs from it, and
\* never changes the response status.
C11_UpdateResponseKeepsHeaders ==
    [][\A k \in Invocations :
           UpdateStep(k) =>
               /\ request'[k].response.status = request[k].response.status
               /\ \A h \in ResponseHeaders :
                      responseHeader(request[k], h) # None
                          => responseHeader(request'[k], h)
                                 = responseHeader(request[k], h)]_vars

\* C11 witness: the view set status 200 and ETag "x" on a resource whose tag
\* is a; both validators' updateResponse ran, and the view's ETag and status
\* are still there.
C11_Witness_ViewHeadersKept ==
    \E k \in Invocations :
        /\ pc[k] = "done"
        /\ NoQuery(k)
        /\ \E i, j \in 1..Len(validators) :
               /\ validators[i] = "ETagValidator"
               /\ validators[j] = "ModifiedSinceValidator"
        /\ context.IETag[1].etag = Some(<<"a">>)
        /\ HasLastModified
        /\ LastModified.seconds = 2
        /\ responseHeader(request[k], "ETag") = Some(Quoted(<<"x">>))
        /\ request[k].response.status = 200
        /\ \E j \in DOMAIN Log(k) :
               Log(k)[j].op = "func" /\ Log(k)[j].view = "etag.SimpleView"

\* Both validators of the package are registered.
BothRegistered ==
    \A v \in ValidatorNames : \E i \in 1..Len(validators) : validators[i] = v

\* A request without query string whose only conditional header is
\* If-None-Match: "a", on an existing resource whose entity tag is "a".
OnlyIfNoneMatchCurrent(k) ==
    /\ NoQuery(k)
    /\ getHeader(request[k], "If-None-Match") = Some(Quoted(<<"a">>))
    /\ getHeader(request[k], "If-Match") = None
    /\ getHeader(request[k], "If-Modified-Since") = None
    /\ getHeader(request[k], "If-UnModified-Since") = None
    /\ ~context.INullResource
    /\ context.IETag = Some([etag |-> Some(<<"a">>), weak |-> FALSE])

\* C12: with both validators registered, a request without query string
\* whose only conditional header is If-None-Match: "a", on an existing
\* resource whose current entity tag is "a", ends with the view not called,
\* status 304 for GET and HEAD and 412 for POST, the result "" and the
\* response header ETag set to "a" (with its quotes).
C12_EndToEndIfNoneMatch ==
    \A k \in Invocations :
        (BothRegistered /\ OnlyIfNoneMatchCurrent(k)) =>
            /\ pc[k] # "raised"
            /\ Positions(k, {"func"}) = {}
            /\ pc[k] = "done" =>
                  /\ Rejected(k)
                  /\ request[k].method \in {"GET", "HEAD"}
                         => request[k].response.status = 304
                  /\ request[k].method = "POST"
                         => request[k].response.status = 412
                  /\ result[k] = Some("")
                  /\ responseHeader(request[k], "ETag") = Some(Quoted(<<"a">>))

\* C12 witness: such a POST request has returned, rejected with 412 and
\* ETag "a".
C12_Witness_PostRejected412 ==
    \E k \in Invocations :
        /\ BothRegistered
        /\ OnlyIfNoneMatchCurrent(k)
        /\ pc[k] = "done"
        /\ request[k].method = "POST"
        /\ request[k].response.status = 412
        /\ result[k] = Some("")
        /\ responseHeader(request[k], "ETag") = Some(Quoted(<<"a">>))

---------------------------------------------------------------------------
(* Claims about malformed and missing input *)

\* The text of a date header is no HTTP-date.
Unparsable(value) ==
    value # None /\ ~Returned(zope_datetime_time(split(value[1], ";")[1]))

\* Every element of a match header is malformed: not empty, not *, and not
\* wrapped in a pair of double quotes (unquoted or unmatched quote).
AllElementsMalformed(value) ==
    /\ value # None
    /\ \A i \in 1..Len(split(value[1], ",")) :
           parseElement(split(value[1], ",")[i]).act = "drop"

\* The conditional header that valid() of the validator under test consults
\* is malformed.
MalformedInput(k) ==
    IF Subject = "ETagValidator"
    THEN \/ AllElementsMalformed(getHeader(request[k], "If-None-Match"))
         \/ /\ getHeader(request[k], "If-None-Match") = None
            /\ AllElementsMalformed(getHeader(request[k], "If-Match"))
    ELSE \/ Unparsable(getHeader(request[k], "If-Modified-Since"))
         \/ /\ getHeader(request[k], "If-Modified-Since") = None
            /\ Unparsable(getHeader(request[k], "If-UnModified-Since"))

\* C13: for every request whose applicable conditional header is malformed
\* (an unparsable If-Modified-Since or If-UnModified-Since date, an If-Match
\* or If-None-Match value of unquoted or unmatched-quote elements), valid
\* returns True and raises nothing.
C13_MalformedInputIsValid ==
    \A k \in Invocations :
        (Called("valid") /\ MalformedInput(k)) => (Returned(Out) /\ Out.ret)

\* The adapter lookup of the validator under test returns None.
NoDescriptor ==
    IF Subject = "ETagValidator"
    THEN context.IETag = None
    ELSE context.ILastModificationDate = None

\* C14 as stated: when the adapter lookup returns None, valid of both
\* validators returns True for every combination of conditional headers and
\* updateResponse sets no header.
C14_NoDescriptorAlwaysValid ==
    \A k \in Invocations :
        NoDescriptor =>
            /\ Called("valid") => (Returned(Out) /\ Out.ret)
            /\ NoHeaderWritten(k)

\* What ETagValidator.valid answers without descriptor: the wildcard alone
\* decides, and the IndexError of parseMatchList passes through.
ValidWithoutTag(k, out) ==
    IF ~Returned(IfNoneMatch(k))
    THEN ~Returned(out)
    ELSE IF Len(IfNoneMatch(k).ret) > 0
         THEN /\ Returned(out)
              /\ out.ret <=> ~(/\ ListsWildcard(IfNoneMatch(k).ret)
                               /\ ~context.INullResource)
         ELSE IF ~Returned(IfMatch(k))
              THEN ~Returned(out)
              ELSE IF Len(IfMatch(k).ret) > 0
                   THEN /\ Returned(out)
                        /\ out.ret <=> (/\ ListsWildcard(IfMatch(k).ret)
                                        /\ ~context.INullResource)
                   ELSE Returned(out) /\ out.ret

\* C14 amended: when the adapter lookup returns None, updateResponse sets no
\* header and ModifiedSinceValidator.valid returns True for every
\* combination of headers; ETagValidator.valid raises the IndexError of
\* parseMatchList when a header it parses has an empty element, and
\* otherwise returns True when no list parses, when a non-empty
\* If-None-Match list has no * or the resource is a null resource, and when
\* the If-Match list it falls back to has * and the resource is not a null
\* resource; it returns False in the remaining cases.
C14_NoDescriptor ==
    \A k \in Invocations :
        NoDescriptor =>
            /\ (Called("valid") /\ Subject = "ModifiedSinceValidator")
                   => (Returned(Out) /\ Out.ret)
            /\ (Called("valid") /\ Subject = "ETagValidator")
                   => ValidWithoutTag(k, Out)
            /\ NoHeaderWritten(k)

\* C14 witness: no IETag adapter, an existing resource, If-None-Match: *,
\* and valid returned False.
C14_Witness_NoAdapterWildcardInvalid ==
    \E k \in Invocations :
        /\ Subject = "ETagValidator"
        /\ context.IETag = None
        /\ ~context.INullResource
        /\ getHeader(request[k], "If-None-Match") = Some(<<"*">>)
        /\ ValidReturned("ETagValidator", FALSE)

---------------------------------------------------------------------------
(* Claims about parseMatchList *)

\* The header parseMatchList was called on.
ParsedHeader(k) == getHeader(request[k], ret[1].header)

\* The entries a list of elements stands for: the tags of its quoted and
\* weak elements and "*" for the wildcard, in order; other elements none.
RECURSIVE Entries(_)
Entries(list) ==
    IF Len(list) = 0
    THEN <<>>
    ELSE (IF list[1].kind \in {"quoted", "weak", "wildcard"}
          THEN <<list[1].tag>>
          ELSE <<>>) \o Entries(Tail(list))

EntriesOf == [list \in ElementLists |-> Entries(list)]

\* C15 as stated: parseMatchList raises no exception for any header value,
\* returns the empty list for an absent header and for the empty string, and
\* a malformed element (empty, bare W/, a single quote character) is only
\* dropped: the other elements are parsed as if it were not there.
C15_ParseNeverRaises ==
    \A k \in Invocations :
        Called("parseMatchList") =>
            /\ Returned(Out)
            /\ ParsedHeader(k) \in {None, Some(<<>>)} => Out.ret = <<>>
            /\ \A list \in ElementLists :
                   ParsedHeader(k) = Some(JoinOf[list])
                       => Out.ret = EntriesOf[list]

\* Every element is a quoted tag, a weak quoted tag, the bare wildcard or an
\* unquoted token.
WellFormedList(list) ==
    \A i \in 1..Len(list) :
        list[i].kind \in {"quoted", "weak", "wildcard", "token"}

\* C16: for every comma-separated list of well-formed quoted tags (with or
\* without W/), bare wildcards and unquoted tokens, parseMatchList returns
\* exactly the unquoted values of the quoted elements (and * for the bare
\* wildcard), in their order and without the weak marker, and nothing for
\* the unquoted tokens.
C16_ParseRoundTrip ==
    \A k \in Invocations :
        Called("parseMatchList") =>
            \A list \in ElementLists :
                (WellFormedList(list) /\ ParsedHeader(k) = Some(JoinOf[list]))
                    => (Returned(Out) /\ Out.ret = EntriesOf[list])

\* C16 witness: the header W/"w",a was parsed to the one entry w.
C16_Witness_WeakThenToken ==
    \E k \in Invocations :
        /\ Called("parseMatchList")
        /\ ParsedHeader(k)
               = Some(<<"W", "/">> \o Quoted(<<"w">>) \o <<",", "a">>)
        /\ Returned(Out)
        /\ Out.ret = <<<<"w">>>>

---------------------------------------------------------------------------
(* Claims about the protocol between evaluate and valid *)

\* evaluate of the validator under test is False on the request.
NotApplicable(k) == ~Evaluate(Subject, context, request[k])

---------------------------------------------------------------------------
(* Claims about the wildcard and the precedence of If-None-Match *)

\* C18: when the parsed list that decides ETagValidator.valid contains *,
\* the answer depends only on whether the resource is a null resource, not
\* on the current tag, the other elements or the query string: If-None-Match
\* with * is valid iff the resource is a null resource, If-Match with * is
\* valid iff it is not.
C18_WildcardDependsOnNullOnly ==
    \A k \in Invocations :
        ValidAnswered("ETagValidator") =>
            /\ ListsWildcard(IfNoneMatch(k).ret)
                   => (Out.ret <=> context.INullResource)
            /\ (/\ Len(IfNoneMatch(k).ret) = 0
                /\ ListsWildcard(IfMatch(k).ret))
                   => (Out.ret <=> ~context.INullResource)

\* C18 witness: a request with a query string and If-Match: "b", * on an
\* existing resource whose tag is a, and valid returned True.
C18_Witness_QueryIfMatchWildcard ==
    \E k \in Invocations :
        /\ ~NoQuery(k)
        /\ ~context.INullResource
        /\ CurrentTag = Some(<<"a">>)
        /\ getHeader(request[k], "If-None-Match") = None
        /\ getHeader(request[k], "If-Match")
               = Some(Quoted(<<"b">>) \o <<",", " ", "*">>)
        /\ ValidReturned("ETagValidator", TRUE)

\* The list matches the resource: by the wildcard on an existing resource,
\* else by the current tag when there is no query string.
Matches(k, list) ==
    IF ListsWildcard(list)
    THEN ~context.INullResource
    ELSE NoQuery(k) /\ ListsCurrentTag(list)

\* The request of invocation k with another (or no) If-Match header.
WithIfMatch(k, value) == [request[k] EXCEPT !.environ.IF_MATCH = value]

\* C19: when If-None-Match parses to a non-empty list, ETagValidator.valid
\* is decided by it alone (valid iff it does not match) and is the same for
\* every If-Match header, present or not; when If-None-Match is absent or
\* parses to the empty list, a non-empty If-Match list decides (valid iff it
\* matches).
C19_IfNoneMatchFirst ==
    \A k \in Invocations :
        (/\ Subject = "ETagValidator"
         /\ Called("valid")
         /\ Returned(IfNoneMatch(k))) =>
            IF Len(IfNoneMatch(k).ret) > 0
            THEN /\ Returned(Out)
                 /\ Out.ret <=> ~Matches(k, IfNoneMatch(k).ret)
                 /\ \A value \in Optional(MatchHeaders) :
                        ETagValidator_valid(context, WithIfMatch(k, value)) = Out
            ELSE /\ Returned(Out) <=> Returned(IfMatch(k))
                 /\ (Returned(IfMatch(k)) /\ Len(IfMatch(k).ret) > 0)
                        => (Out.ret <=> Matches(k, IfMatch(k).ret))

\* C19 witness: both headers list the current tag a; If-Match alone would be
\* valid, and valid returned False.
C19_Witness_BothHeadersInvalid ==
    \E k \in Invocations :
        /\ NoQuery(k)
        /\ CurrentTag = Some(<<"a">>)
        /\ getHeader(request[k], "If-None-Match") = Some(Quoted(<<"a">>))
        /\ getHeader(request[k], "If-Match") = Some(Quoted(<<"a">>))
        /\ ValidReturned("ETagValidator", FALSE)

---------------------------------------------------------------------------
(* Claims about the response status *)

\* The status the view leaves on a fresh response.
StatusAfterView(view) == IF view = "tests.Simpleview" THEN UnsetStatus ELSE 200

\* C20: validate() writes the response status at most once per invocation
\* and only when it rejects; the value written is the invalidStatus returned
\* by a validator that reported invalid in this invocation (304 or 412),
\* never the initial 999; when the request is accepted, in particular when
\* no validator is applicable, the view is called and the status is what the
\* view left, the gate does not touch it.
C20_StatusWrittenOnlyOnReject ==
    \A k \in Invocations :
        /\ Cardinality(Positions(k, {"setStatus"})) <= 1
        /\ \A j \in Positions(k, {"setStatus"}) :
               /\ IsInvalid(k)
               /\ Positions(k, {"func"}) = {}
               /\ Log(k)[j].status \in {304, 412}
               /\ Log(k)[j].status # NoStatus
               /\ \E i \in ReportedInvalid(k) :
                      ReportedStatus(k, i) = Log(k)[j].status
               /\ request[k].response.status = Log(k)[j].status
        /\ (Decided(k) /\ ~IsInvalid(k)) =>
               /\ Positions(k, {"setStatus"}) = {}
               /\ \E j \in Positions(k, {"func"}) :
                      request[k].response.status
                          = StatusAfterView(Log(k)[j].view)
        /\ (Decided(k) /\ Applicable(k) = {}) => Positions(k, {"func"}) # {}
        /\ ~Decided(k) => request[k].response.status = UnsetStatus

\* C20 witness: both validators registered, none applicable; the view was
\* called and the invocation returned with the status never set.
C20_Witness_NoneApplicableUntouched ==
    \E k \in Invocations :
        /\ pc[k] = "done"
        /\ BothRegistered
        /\ Applicable(k) = {}
        /\ Positions(k, {"func"}) # {}
        /\ Positions(k, {"setStatus"}) = {}
        /\ request[k].response.status = UnsetStatus

---------------------------------------------------------------------------
(* Claims about the calls validate() makes *)

\* A request on which a direct ModifiedSinceValidator.valid breaks the
\* protocol: no date header, no query string, a last-modified time.
ProtocolBroken(k) ==
    /\ getHeader(request[k], "If-Modified-Since") = None
    /\ getHeader(request[k], "If-UnModified-Since") = None
    /\ NoQuery(k)
    /\ HasLastModified

\* C21: within one invocation of validate(), valid is called only on a
\* validator whose evaluate just returned True, and invalidStatus only on a
\* validator whose valid just returned False; so no valid call of the
\* invocation raises ValueError, for any request and resource, although
\* ModifiedSinceValidator.valid called directly raises it on a request
\* without date header and query string when the resource has a
\* last-modified time.
C21_ValidOnlyAfterEvaluate ==
    \A k \in Invocations :
        /\ \A j \in Positions(k, {"valid"}) :
               /\ j > 1
               /\ Log(k)[j - 1].op = "evaluate"
               /\ Log(k)[j - 1].v = Log(k)[j].v
               /\ Log(k)[j - 1].ret
               /\ Log(k)[j].exc # "ValueError"
        /\ \A j \in Positions(k, {"invalidStatus"}) :
               /\ j > 1
               /\ Log(k)[j - 1].op = "valid"
               /\ Log(k)[j - 1].v = Log(k)[j].v
               /\ Log(k)[j - 1].exc = ""
               /\ ~Log(k)[j - 1].ret
        /\ ProtocolBroken(k)
               => ModifiedSinceValidator_valid(context, request[k])
                      = Raise("ValueError")

\* C21 witness: validate() has returned for a request on which the direct
\* call raises ValueError; the ModifiedSinceValidator is registered, its
\* evaluate returned False and its valid was not called.
C21_Witness_GateSkipsValid ==
    \E k \in Invocations :
        /\ pc[k] = "done"
        /\ ProtocolBroken(k)
        /\ ModifiedSinceValidator_valid(context, request[k])
               = Raise("ValueError")
        /\ \E i \in 1..Len(validators) :
               /\ validators[i] = "ModifiedSinceValidator"
               /\ \E j \in Positions(k, {"evaluate"}) :
                      Log(k)[j].v = i /\ ~Log(k)[j].ret
               /\ \A j \in Positions(k, {"valid"}) : Log(k)[j].v # i

---------------------------------------------------------------------------
(* Claims about concurrent invocations *)

\* Invocation k has ended, by return or by exception.
Ended(k) == pc[k] \in {"done", "raised"}

\* The request invocation k started with: only the response changes.
InitialRequest(k) == [request[k] EXCEPT !.response = NewResponse]

Outcome(k) ==
    [raised  |-> pc[k] = "raised",
     invoked |-> Positions(k, {"func"}) # {},
     request |-> request[k],
     result  |-> result[k]]

\* C22: for every interleaving of two invocations of validate() that share
\* the validators and the resource and have each their own request and
\* response, each invocation ends as it would when run alone on its request
\* and view: view called or not, response status, response headers, result.
C22_InterleavingIndependent ==
    \A k \in Invocations :
        Ended(k) =>
            \E view \in Views :
                /\ \A j \in Positions(k, {"func"}) : Log(k)[j].view = view
                /\ Outcome(k) = ValidateAlone(InitialRequest(k), view)

\* C22 witness: two invocations on different requests are both under way or
\* ended, the first rejected with 412 and returned, the second past its
\* decision with the view called.
C22_Witness_RejectedBesideAccepted ==
    /\ Invocations = {1, 2}
    /\ InitialRequest(1) # InitialRequest(2)
    /\ pc[1] = "done"
    /\ Rejected(1)
    /\ request[1].response.status = 412
    /\ pc[2] = "update"
    /\ Positions(2, {"func"}) # {}
    /\ request[2].response.status # 412

---------------------------------------------------------------------------
(* Claims about the quoted wildcard *)

\* The header is the quoted entity tag whose value is *: "*" or W/"*".
QuotedStar(value) ==
    value \in {Some(Quoted(<<"*">>)), Some(<<"W", "/">> \o Quoted(<<"*">>))}

\* The request of invocation k with the bare wildcard in place of a quoted
\* one.
WithBareStar(k) ==
    [request[k] EXCEPT
        !.environ.IF_NONE_MATCH = IF QuotedStar(@) THEN Some(<<"*">>) ELSE @,
        !.environ.IF_MATCH      = IF QuotedStar(@) THEN Some(<<"*">>) ELSE @]

\* C23: parseMatchList maps "*" and W/"*" to the list entry of the bare
\* wildcard *, and valid treats them as the wildcard: the answer is the one
\* for the bare *; If-None-Match: "*" on an existing resource is invalid
\* also when the resource has no entity tag, and If-Match: "*" alone is
\* valid on an existing resource whatever its current tag.
C23_QuotedStarIsWildcard ==
    \A k \in Invocations :
        /\ \A header \in {"If-None-Match", "If-Match"} :
               QuotedStar(getHeader(request[k], header))
                   => /\ parseMatchList(request[k], header)
                             = Return(<<<<"*">>>>)
                      /\ parseMatchList(request[k], header)
                             = parseMatchList(WithBareStar(k), header)
        /\ (/\ Subject = "ETagValidator"
            /\ Called("valid")
            /\ QuotedStar(getHeader(request[k], "If-None-Match")))
               => /\ Out = ETagValidator_valid(context, WithBareStar(k))
                  /\ Out = Return(context.INullResource)
        /\ (/\ Subject = "ETagValidator"
            /\ Called("valid")
            /\ getHeader(request[k], "If-None-Match") = None
            /\ QuotedStar(getHeader(request[k], "If-Match")))
               => /\ Out = ETagValidator_valid(context, WithBareStar(k))
                  /\ Out = Return(~context.INullResource)

\* C23 witness: an existing resource without entity tag, If-None-Match:
\* "*", and valid returned False.
C23_Witness_QuotedStarNoTagInvalid ==
    \E k \in Invocations :
        /\ ~context.INullResource
        /\ CurrentTag = None
        /\ getHeader(request[k], "If-None-Match") = Some(Quoted(<<"*">>))
        /\ ValidReturned("ETagValidator", FALSE)

====
